---------------------------- MODULE Spec2Model ----------------------------
(***************************************************************************)
(* Model of lazy_property/__init__.py: the descriptors LazyProperty and    *)
(* LazyWritableProperty.  One descriptor is declared on one owning class;  *)
(* the class has NumInstances instances.  Every step is one complete call  *)
(* of a descriptor method (__get__ or __set__), made sequentially (Spec,   *)
(* and SpecPre when the cache attribute exists beforehand).  SpecRace runs *)
(* two calls concurrently, line by line; SpecDoc constructs descriptors;   *)
(* SpecTwo and SpecPair make calls of two descriptors.                     *)
(***************************************************************************)
EXTENDS Integers, FiniteSets, Sequences, TLC

\* ------------------------------------------------------------------ bounds
NumInstances == 2
MaxVal == 1
MaxOps == 3

\* --------------------------------------------------------------- constants
\* Python's None, as the value of `instance`, `fget` and `fset`.
None == 0
\* A callable passed as fget / fset (any value other than None).
CustomGetter == 1
CustomSetter == 2

Instances == 1..NumInstances
InstancesOrNone == Instances \cup {None}
\* The values user code can return or assign; 0 is a falsy one.
Values == 0..MaxVal
\* The exceptions user code (method, fget, fset) can raise.
UserErrors == {"ValueError"}
\* What a user-supplied fset can do with (instance, value).
SetterEffects == {"store", "ignore", "raise"}

\* self.method.__name__
method__name__ == "f"

VARIABLES
    cls,            \* the descriptor's class: LazyProperty or LazyWritableProperty
    fget,           \* property.fget of the descriptor
    fset,           \* property.fset of the descriptor
    idict,          \* idict[i]: the attributes set on instance i, name -> value
    method_calls,   \* method_calls[i]: how often self.method(i) was called
    fget_calls,     \* fget_calls[i]: how often self.fget(i) was called
    fset_calls,     \* fset_calls[i]: how often self.fset(i, _) was called
    fset_args,      \* the arguments of the latest self.fset call, or <<>>
    stores,         \* stores[i]: how often the descriptor itself ran setattr(i, cache_name, _)
    produced,       \* produced[i]: outcome of the latest method/fget call on i
    failed,         \* failed[i]: some method/fget call on i raised
    written,        \* written[i]: <<v>> for the latest default-setter write on i, or <<>>
    reads,          \* reads[i]: how often __get__ was called with instance i
    first_op,       \* first_op[i]: "get" or "set", the first call made with
                    \* instance i, "none" before it
    last,           \* the latest descriptor call and what it gave the caller
    nops,           \* number of descriptor calls made
    cdict,          \* the attributes of the owning class other than the descriptor
    pre,            \* the instances' attributes before the first descriptor call
    pc,             \* pc[t]: the line thread t is about to run
    task,           \* task[t]: the descriptor call thread t makes
    tres,           \* tres[t]: the local `result` of thread t
    events,         \* the slot accesses of the threads, in the order they happened
    descs,          \* the descriptors constructed in a class declaration
    objs,           \* objs[o][i]: the attributes of instance i of owning class o
    dcalls          \* dcalls[k][i]: how often the method of descs[k] ran on i

\* The threads and the class declaration, left alone by sequential calls of
\* the one descriptor.
auxvars == <<cdict, pre, pc, task, tres, events, descs, objs, dcalls>>

vars == <<cls, fget, fset, idict, method_calls, fget_calls, fset_calls,
          fset_args, stores, produced, failed, written, reads, first_op,
          last, nops, cdict, pre, pc, task, tres, events, descs, objs, dcalls>>

\* ------------------------------------------------------ outcomes of a call
Return(v) == [kind |-> "return", val |-> v]
ReturnNone == [kind |-> "return_none"]
ReturnSelf == [kind |-> "self"]
Raise(e) == [kind |-> "raise", err |-> e]

\* What a call of user code (self.method or self.fget) can come back with.
UserOutcomes == {Return(v) : v \in Values} \cup {Raise(e) : e \in UserErrors}

\* ------------------------------------------------------ attribute storage
\* A name that no other code would use.
CacheNameOfPrivate(name) == "_lazy_" \o name

\* One name for the cache of every lazy attribute.
CacheNameOfFixed(name) == "_cache"

\* self.cache_name = "_{}".format(self.method.__name__)
CacheNameOf(name) == "_" \o name
cache_name == CacheNameOf(method__name__)

\* None has no attribute of that name and accepts none.  An attribute is
\* looked up on the instance first and on its class next; it is set on the
\* instance.
hasattr(d, instance, name) ==
    /\ instance \in DOMAIN d
    /\ name \in DOMAIN d[instance] \/ name \in DOMAIN cdict
getattr(d, instance, name) ==
    IF name \in DOMAIN d[instance] THEN d[instance][name] ELSE cdict[name]
setattr(d, instance, name, value) ==
    IF instance \in DOMAIN d
    THEN [d EXCEPT ![instance] =
            [n \in (DOMAIN @) \cup {name} |-> IF n = name THEN value ELSE @[n]]]
    ELSE d

\* ------------------------------------------------------------------- Init
NoAttrs == [n \in {} |-> 0]

\* No thread is running.
NoThreads == pc = <<>> /\ task = <<>> /\ tres = <<>> /\ events = <<>>

\* No class declaration is under way.
NoDeclaration == descs = <<>> /\ objs = <<>> /\ dcalls = <<>>

\* The descriptor as constructed: its class and its fget and fset arguments.
InitDescriptor ==
    /\ cls \in {"LazyProperty", "LazyWritableProperty"}
    /\ fget \in {None, CustomGetter}
    /\ fset \in {None, CustomSetter}

\* No descriptor call was made yet.
InitCalls ==
    /\ method_calls = [i \in InstancesOrNone |-> 0]
    /\ fget_calls = [i \in InstancesOrNone |-> 0]
    /\ fset_calls = [i \in InstancesOrNone |-> 0]
    /\ fset_args = <<>>
    /\ stores = [i \in Instances |-> 0]
    /\ produced = [i \in Instances |-> [kind |-> "none"]]
    /\ failed = [i \in Instances |-> FALSE]
    /\ written = [i \in Instances |-> <<>>]
    /\ reads = [i \in Instances |-> 0]
    /\ first_op = [i \in Instances |-> "none"]
    /\ last = [op |-> "none"]
    /\ nops = 0

Init ==
    /\ InitDescriptor
    /\ idict = [i \in Instances |-> NoAttrs]
    /\ cdict = NoAttrs
    /\ pre = idict
    /\ InitCalls
    /\ NoThreads
    /\ NoDeclaration

\* ------------------------------------------------------ call bookkeeping
\* Records that a descriptor call `op` was made with `instance`.
Called(op, instance) ==
    /\ nops < MaxOps
    /\ nops' = nops + 1
    /\ first_op' = IF instance \in Instances /\ first_op[instance] = "none"
                   THEN [first_op EXCEPT ![instance] = op]
                   ELSE first_op
    /\ reads' = IF instance \in Instances /\ op = "get"
                THEN [reads EXCEPT ![instance] = @ + 1]
                ELSE reads
    /\ UNCHANGED auxvars

\* ------------------------------------------------------ LazyProperty.__get__
IsClassAccessNever(instance) == FALSE

\* `if instance is None`
IsClassAccess(instance) == instance = None

CacheHitNever(d, instance) == FALSE

\* Tests the cached value instead of the presence of the slot.
CacheHitTruthy(d, instance) ==
    hasattr(d, instance, cache_name) /\ getattr(d, instance, cache_name) # 0

\* `if hasattr(instance, self.cache_name)`
CacheHit(d, instance) == hasattr(d, instance, cache_name)

IgnoreCustomGetter == FALSE

\* `if self.fget is not None`
UseCustomGetter == fget # None

\* Caches a default when the computation raised.
AfterComputeAlways(d, instance, outcome) ==
    setattr(d, instance, cache_name,
            IF outcome.kind = "raise" THEN 0 ELSE outcome.val)

\* Caches the result for every instance (a cache kept with the descriptor).
AfterComputeShared(d, instance, outcome) ==
    IF outcome.kind = "raise"
    THEN d
    ELSE [j \in DOMAIN d |-> setattr(d, j, cache_name, outcome.val)[j]]

\* Returns the result without caching it.
AfterComputeNothing(d, instance, outcome) == d

\* Looks at the slot again before storing and keeps what is there.
AfterComputeIfAbsent(d, instance, outcome) ==
    IF outcome.kind = "raise" \/ hasattr(d, instance, cache_name)
    THEN d
    ELSE setattr(d, instance, cache_name, outcome.val)

\* Lines 55-61: an exception leaves before the setattr, a result is stored.
AfterCompute(d, instance, outcome) ==
    IF outcome.kind = "raise"
    THEN d
    ELSE setattr(d, instance, cache_name, outcome.val)

LazyProperty__get__(instance) ==
    /\ Called("get", instance)
    /\ UNCHANGED <<cls, fget, fset, fset_calls, fset_args, written>>
    /\ IF IsClassAccess(instance)
       THEN /\ last' = [op |-> "get", instance |-> instance, out |-> ReturnSelf]
            /\ UNCHANGED <<idict, method_calls, fget_calls, stores, produced, failed>>
       ELSE IF CacheHit(idict, instance)
       THEN /\ last' = [op |-> "get", instance |-> instance,
                        out |-> Return(getattr(idict, instance, cache_name))]
            /\ UNCHANGED <<idict, method_calls, fget_calls, stores, produced, failed>>
       ELSE \E outcome \in UserOutcomes :
            /\ IF UseCustomGetter
               THEN /\ fget_calls' = [fget_calls EXCEPT ![instance] = @ + 1]
                    /\ UNCHANGED method_calls
               ELSE /\ method_calls' = [method_calls EXCEPT ![instance] = @ + 1]
                    /\ UNCHANGED fget_calls
            /\ IF instance \in Instances
               THEN /\ produced' = [produced EXCEPT ![instance] = outcome]
                    /\ failed' = [failed EXCEPT ![instance] =
                                      @ \/ outcome.kind = "raise"]
                    /\ stores' = [stores EXCEPT ![instance] =
                                      IF outcome.kind = "raise" THEN @ ELSE @ + 1]
               ELSE UNCHANGED <<produced, failed, stores>>
            /\ idict' = AfterCompute(idict, instance, outcome)
            \* setattr(None, ...) raises AttributeError
            /\ last' = [op |-> "get", instance |-> instance,
                        out |-> IF instance \in Instances \/ outcome.kind = "raise"
                                THEN outcome ELSE Raise("AttributeError")]

\* ------------------------------------------------------------- self.fset
\* A call self.fset(instance, value) of a user-supplied setter.
Call_fset(instance, value) ==
    \E effect \in SetterEffects :
        /\ instance = None => effect # "store"
        /\ fset_calls' = [fset_calls EXCEPT ![instance] = @ + 1]
        /\ fset_args' = <<instance, value>>
        /\ idict' = IF effect = "store"
                    THEN setattr(idict, instance, cache_name, value)
                    ELSE idict
        /\ last' = [op |-> "set", instance |-> instance, value |-> value,
                    out |-> IF effect = "raise"
                            THEN Raise(CHOOSE e \in UserErrors : TRUE)
                            ELSE ReturnNone]
        /\ UNCHANGED <<stores, written>>

\* ---------------------------------------------- LazyWritableProperty.__set__
DefinesSetAlways(c) == TRUE

\* `class LazyWritableProperty(LazyProperty): def __set__`: the class that
\* overrides property.__set__.
DefinesSet(c) == c = "LazyWritableProperty"

IsClassWriteNever(instance) == FALSE

\* `if instance is None: raise AttributeError`
IsClassWrite(instance) == instance = None

IgnoreCustomSetter == TRUE

\* `if self.fset is None`
UseDefaultSetter == fset = None

DefaultSetNothing(d, instance, value) == d

DefaultSetIfAbsent(d, instance, value) ==
    IF hasattr(d, instance, cache_name) THEN d
    ELSE setattr(d, instance, cache_name, value)

\* `setattr(instance, self.cache_name, value)`
DefaultSet(d, instance, value) == setattr(d, instance, cache_name, value)

LazyWritableProperty__set__(instance, value) ==
    /\ DefinesSet(cls)
    /\ Called("set", instance)
    /\ UNCHANGED <<cls, fget, fset, method_calls, fget_calls, produced, failed>>
    /\ IF IsClassWrite(instance)
       THEN /\ last' = [op |-> "set", instance |-> instance, value |-> value,
                        out |-> Raise("AttributeError")]
            /\ UNCHANGED <<idict, fset_calls, fset_args, stores, written>>
       ELSE IF UseDefaultSetter
       THEN /\ idict' = DefaultSet(idict, instance, value)
            /\ stores' = IF instance \in Instances
                         THEN [stores EXCEPT ![instance] = @ + 1] ELSE stores
            /\ written' = IF instance \in Instances
                          THEN [written EXCEPT ![instance] = <<value>>] ELSE written
            /\ last' = [op |-> "set", instance |-> instance, value |-> value,
                        out |-> IF instance \in Instances
                                THEN ReturnNone ELSE Raise("AttributeError")]
            /\ UNCHANGED <<fset_calls, fset_args>>
       ELSE Call_fset(instance, value)

\* ------------------------------------------- property.__set__ (inherited)
\* LazyProperty defines no __set__: the one of `property` runs, which raises
\* AttributeError when fset is None and calls fset(instance, value) otherwise.
ReadOnly == fset = None

property__set__(instance, value) ==
    /\ ~DefinesSet(cls)
    /\ Called("set", instance)
    /\ UNCHANGED <<cls, fget, fset, method_calls, fget_calls, produced, failed>>
    /\ IF ReadOnly
       THEN /\ last' = [op |-> "set", instance |-> instance, value |-> value,
                        out |-> Raise("AttributeError")]
            /\ UNCHANGED <<idict, fset_calls, fset_args, stores, written>>
       ELSE Call_fset(instance, value)

\* ------------------------------------------------------------------- Next
Next ==
    \/ \E instance \in InstancesOrNone : LazyProperty__get__(instance)
    \/ \E instance \in InstancesOrNone, value \in Values :
           LazyWritableProperty__set__(instance, value)
    \/ \E instance \in InstancesOrNone, value \in Values :
           property__set__(instance, value)

Spec == Init /\ [][Next]_vars

\* ------------------------------------------------------- concurrent calls
\* Two threads each make one descriptor call on the same instance.  The code
\* takes no lock, so a call is a sequence of separate steps: line 51 (hasattr),
\* line 53 (getattr), lines 55-59 (the computation), line 61 (setattr) for a
\* read, and line 80 (setattr) for a write.
Threads == {1, 2}
TheInstance == CHOOSE i \in Instances : TRUE
Tasks == {[op |-> "get"]} \cup {[op |-> "set", value |-> v] : v \in Values}

InitRace ==
    /\ InitDescriptor
    /\ fset = None
    /\ idict = [i \in Instances |-> NoAttrs]
    /\ cdict = NoAttrs
    /\ pre = idict
    /\ InitCalls
    /\ NoDeclaration
    /\ task \in [Threads -> Tasks]
    /\ pc = [t \in Threads |-> IF task[t].op = "get" THEN "check" ELSE "write"]
    /\ tres = [t \in Threads |-> [kind |-> "none"]]
    /\ events = <<>>

\* What a thread's step leaves alone.
RaceFrame ==
    UNCHANGED <<cls, fget, fset, fset_calls, fset_args, stores, produced, failed,
                written, reads, first_op, last, nops, cdict, pre, task,
                descs, objs, dcalls>>

\* Line 51: `if hasattr(instance, self.cache_name)`
Check(t) ==
    /\ pc[t] = "check"
    /\ pc' = [pc EXCEPT ![t] = IF CacheHit(idict, TheInstance)
                               THEN "fetch" ELSE "compute"]
    /\ events' = Append(events, [t |-> t, what |-> "check"])
    /\ UNCHANGED <<idict, method_calls, fget_calls, tres>>
    /\ RaceFrame

\* Line 53: `result = getattr(instance, self.cache_name)`, then line 63.
Fetch(t) ==
    /\ pc[t] = "fetch"
    /\ tres' = [tres EXCEPT ![t] = Return(getattr(idict, TheInstance, cache_name))]
    /\ pc' = [pc EXCEPT ![t] = "done"]
    /\ events' = Append(events, [t |-> t, what |-> "fetch"])
    /\ UNCHANGED <<idict, method_calls, fget_calls>>
    /\ RaceFrame

\* Lines 55-59: `result = self.fget(instance)` or `self.method(instance)`;
\* an exception ends the call.
Compute(t) ==
    /\ pc[t] = "compute"
    /\ \E outcome \in UserOutcomes :
         /\ tres' = [tres EXCEPT ![t] = outcome]
         /\ pc' = [pc EXCEPT ![t] = IF outcome.kind = "raise"
                                    THEN "done" ELSE "store"]
    /\ IF UseCustomGetter
       THEN /\ fget_calls' = [fget_calls EXCEPT ![TheInstance] = @ + 1]
            /\ UNCHANGED method_calls
       ELSE /\ method_calls' = [method_calls EXCEPT ![TheInstance] = @ + 1]
            /\ UNCHANGED fget_calls
    /\ events' = Append(events, [t |-> t, what |-> "compute"])
    /\ UNCHANGED idict
    /\ RaceFrame

\* Line 61: `setattr(instance, self.cache_name, result)`, then line 63.
Store(t) ==
    /\ pc[t] = "store"
    /\ idict' = AfterCompute(idict, TheInstance, tres[t])
    /\ pc' = [pc EXCEPT ![t] = "done"]
    /\ events' = Append(events, [t |-> t, what |-> "store", val |-> tres[t].val])
    /\ UNCHANGED <<method_calls, fget_calls, tres>>
    /\ RaceFrame

\* `instance.attr = value`: line 80 when the class defines __set__, the
\* AttributeError of property.__set__ otherwise (fset is None here).
Write(t) ==
    /\ pc[t] = "write"
    /\ IF DefinesSet(cls)
       THEN /\ idict' = DefaultSet(idict, TheInstance, task[t].value)
            /\ tres' = [tres EXCEPT ![t] = ReturnNone]
            /\ events' = Append(events, [t |-> t, what |-> "write",
                                         val |-> task[t].value])
       ELSE /\ tres' = [tres EXCEPT ![t] = Raise("AttributeError")]
            /\ UNCHANGED <<idict, events>>
    /\ pc' = [pc EXCEPT ![t] = "done"]
    /\ UNCHANGED <<method_calls, fget_calls>>
    /\ RaceFrame

NextRace ==
    \/ \E t \in Threads : Check(t)
    \/ \E t \in Threads : Fetch(t)
    \/ \E t \in Threads : Compute(t)
    \/ \E t \in Threads : Store(t)
    \/ \E t \in Threads : Write(t)

SpecRace == InitRace /\ [][NextRace]_vars

\* ------------------------------------------------------ LazyProperty.__init__
\* Documentation strings; DocNone is a __doc__ of None.
DocNone == "None"
MethodDocs == {DocNone, "", "computes it"}
DocArgs == {DocNone, "", "explicit"}
\* The __doc__ of a callable passed as fget.
FgetDoc == "getter"
MethodNames == {"f", "g"}
\* The wrapped methods: a function has a __name__ and a __doc__.
Methods == [name : MethodNames, doc : MethodDocs]

\* property.__init__(fget, fset, fdel, doc): without a doc it takes fget's.
property__init__(fget_, fset_, doc_) ==
    [fget |-> fget_, fset |-> fset_,
     doc |-> IF doc_ = DocNone /\ fget_ # None THEN FgetDoc ELSE doc_]

\* Leaves the descriptor as property.__init__ made it.
update_wrapperNothing(self, method) == self

\* functools.update_wrapper(self, method): copies __name__ and __doc__ (and
\* the other WRAPPER_ASSIGNMENTS) from the method and sets __wrapped__.
update_wrapper(self, method) ==
    [self EXCEPT !.name = method.name, !.doc = method.doc, !.wrapped = method]

\* LazyProperty.__init__(self, method, fget, fset, fdel, doc), for a
\* descriptor of class c; `doc or method.__doc__` takes the method's for a
\* doc of None or "".  doc_arg keeps the argument as given.
LazyProperty__init__(c, method_, fget_, fset_, doc_) ==
    LET doc1 == IF doc_ \in {DocNone, ""} THEN method_.doc ELSE doc_
        prop == property__init__(fget_, fset_, doc1)
        self == [cls |-> c, method |-> method_,
                 cache_name |-> CacheNameOf(method_.name),
                 fget |-> prop.fget, fset |-> prop.fset, doc |-> prop.doc,
                 name |-> "", wrapped |-> method_, doc_arg |-> doc_]
    IN  update_wrapper(self, method_)

\* The sequential state when only the class declaration is looked at.
NoCalls ==
    /\ cls = "LazyProperty" /\ fget = None /\ fset = None
    /\ idict = [i \in Instances |-> NoAttrs]
    /\ cdict = NoAttrs
    /\ pre = idict
    /\ InitCalls
    /\ NoThreads

InitDoc == NoCalls /\ NoDeclaration

\* `attr = LazyProperty(method, ...)` or `LazyWritableProperty(method, ...)`
\* in a class body; descs holds the descriptor constructed last.
Declare(c, method_, fget_, fset_, doc_) ==
    /\ descs' = <<LazyProperty__init__(c, method_, fget_, fset_, doc_)>>
    /\ UNCHANGED <<cls, fget, fset, idict, method_calls, fget_calls, fset_calls,
                   fset_args, stores, produced, failed, written, reads,
                   first_op, last, nops, cdict, pre, pc, task, tres, events,
                   objs, dcalls>>

NextDoc ==
    \E c \in {"LazyProperty", "LazyWritableProperty"}, method_ \in Methods,
       fget_ \in {None, CustomGetter}, fset_ \in {None, CustomSetter},
       doc_ \in DocArgs :
        Declare(c, method_, fget_, fset_, doc_)

SpecDoc == InitDoc /\ [][NextDoc]_vars

\* ------------------------------------------- several descriptors, by value
\* The calls of a descriptor descs[k] on the instances of the owning class o,
\* as functions of the state w = [objs, dcalls]: objs[o][i] holds the
\* attributes of instance i, dcalls[k][i] counts the calls of the method (or
\* fget) of descs[k] on i and how many of them raised.

\* LazyWritableProperty gets its __get__ from property instead.
Inherited__get__Direct(c) ==
    IF c = "LazyWritableProperty" THEN "property" ELSE "LazyProperty"

\* `class LazyWritableProperty(LazyProperty)` defines no __get__: both
\* classes run LazyProperty.__get__.
Inherited__get__(c) == "LazyProperty"

CountCall(calls, k, instance, outcome) ==
    [calls EXCEPT ![k][instance] =
        [n |-> @.n + 1,
         raised |-> @.raised + IF outcome.kind = "raise" THEN 1 ELSE 0]]

\* descs[k].__get__(instance, owner) where `outcome` is what the method (or
\* fget) gives if it is called.
GetIn(w, k, o, instance, outcome) ==
    LET desc == descs[k]
        d == w.objs[o]
    IN  IF IsClassAccess(instance)
        THEN [objs |-> w.objs, dcalls |-> w.dcalls, out |-> ReturnSelf]
        ELSE IF Inherited__get__(desc.cls) # "LazyProperty"
        THEN \* property.__get__: fget(instance), or "unreadable attribute"
             IF desc.fget = None
             THEN [objs |-> w.objs, dcalls |-> w.dcalls,
                   out |-> Raise("AttributeError")]
             ELSE [objs |-> w.objs,
                   dcalls |-> CountCall(w.dcalls, k, instance, outcome),
                   out |-> outcome]
        ELSE IF hasattr(d, instance, desc.cache_name)
        THEN [objs |-> w.objs, dcalls |-> w.dcalls,
              out |-> Return(getattr(d, instance, desc.cache_name))]
        ELSE [objs |-> IF outcome.kind = "raise"
                       THEN w.objs
                       ELSE [w.objs EXCEPT ![o] =
                               setattr(d, instance, desc.cache_name, outcome.val)],
              dcalls |-> CountCall(w.dcalls, k, instance, outcome),
              out |-> outcome]

\* descs[k].__set__(instance, value) where `effect` is what a custom setter
\* does if it is called.
SetIn(w, k, o, instance, value, effect) ==
    LET desc == descs[k]
        d == w.objs[o]
        stored == [w.objs EXCEPT ![o] = setattr(d, instance, desc.cache_name, value)]
        by_fset == [objs |-> IF effect = "store" THEN stored ELSE w.objs,
                    dcalls |-> w.dcalls,
                    out |-> IF effect = "raise"
                            THEN Raise(CHOOSE e \in UserErrors : TRUE)
                            ELSE ReturnNone]
        refused == [objs |-> w.objs, dcalls |-> w.dcalls,
                    out |-> Raise("AttributeError")]
    IN  IF DefinesSet(desc.cls)
        THEN IF IsClassWrite(instance) THEN refused
             ELSE IF desc.fset = None
             THEN [objs |-> stored, dcalls |-> w.dcalls, out |-> ReturnNone]
             ELSE by_fset
        ELSE IF desc.fset = None THEN refused ELSE by_fset

NoCallsIn == [i \in InstancesOrNone |-> [n |-> 0, raised |-> 0]]

\* What a call of one of several descriptors leaves alone.
DeclFrame ==
    UNCHANGED <<cls, fget, fset, idict, method_calls, fget_calls, fset_calls,
                fset_args, stores, produced, failed, written, reads,
                first_op, cdict, pre, pc, task, tres, events, descs>>

\* ----------------------------------- two lazy attributes on the same class
\* class C: f = <cls1>(f, fset=...); g = <cls2>(g, fset=...)
InitTwo ==
    /\ NoCalls
    /\ \E c1, c2 \in {"LazyProperty", "LazyWritableProperty"},
          fs1, fs2 \in {None, CustomSetter} :
         descs = <<LazyProperty__init__(c1, [name |-> "f", doc |-> DocNone],
                                        None, fs1, DocNone),
                   LazyProperty__init__(c2, [name |-> "g", doc |-> DocNone],
                                        None, fs2, DocNone)>>
    /\ objs = <<[i \in Instances |-> NoAttrs]>>
    /\ dcalls = [k \in {1, 2} |-> NoCallsIn]

\* instance.<name of descs[k]>
TwoGet(k, instance) ==
    /\ nops < MaxOps
    /\ nops' = nops + 1
    /\ \E outcome \in UserOutcomes :
         LET r == GetIn([objs |-> objs, dcalls |-> dcalls], k, 1, instance, outcome)
         IN  /\ objs' = r.objs
             /\ dcalls' = r.dcalls
             /\ last' = [op |-> "get", k |-> k, instance |-> instance,
                         out |-> r.out]
    /\ DeclFrame

\* instance.<name of descs[k]> = value
TwoSet(k, instance, value) ==
    /\ nops < MaxOps
    /\ nops' = nops + 1
    /\ \E effect \in SetterEffects :
         LET r == SetIn([objs |-> objs, dcalls |-> dcalls], k, 1, instance,
                        value, effect)
         IN  /\ objs' = r.objs
             /\ dcalls' = r.dcalls
             /\ last' = [op |-> "set", k |-> k, instance |-> instance,
                         value |-> value, out |-> r.out]
    /\ DeclFrame

\* The instances do not share attributes, so the calls are made on one.
NextTwo ==
    \/ \E k \in {1, 2} : TwoGet(k, TheInstance)
    \/ \E k \in {1, 2}, value \in Values : TwoSet(k, TheInstance, value)

SpecTwo == InitTwo /\ [][NextTwo]_vars

\* ------------------- the same reads on a LazyProperty and on a writable one
\* descs[1] is a LazyProperty and descs[2] a LazyWritableProperty built from
\* the same arguments, each on an owning class of its own (1 and 2).
InitPair ==
    /\ NoCalls
    /\ \E n \in MethodNames, fget_ \in {None, CustomGetter},
          fset_ \in {None, CustomSetter} :
         descs = <<LazyProperty__init__("LazyProperty",
                       [name |-> n, doc |-> DocNone], fget_, fset_, DocNone),
                   LazyProperty__init__("LazyWritableProperty",
                       [name |-> n, doc |-> DocNone], fget_, fset_, DocNone)>>
    /\ objs = <<[i \in Instances |-> NoAttrs], [i \in Instances |-> NoAttrs]>>
    /\ dcalls = [k \in {1, 2} |-> NoCallsIn]

\* The same read, class-level or on an instance, made of both; the shared
\* computation gives both the same outcome.
PairGet(instance) ==
    /\ nops < MaxOps
    /\ nops' = nops + 1
    /\ \E outcome \in UserOutcomes :
         LET r1 == GetIn([objs |-> objs, dcalls |-> dcalls], 1, 1, instance, outcome)
             r2 == GetIn([objs |-> r1.objs, dcalls |-> r1.dcalls], 2, 2,
                         instance, outcome)
         IN  /\ objs' = r2.objs
             /\ dcalls' = r2.dcalls
             /\ last' = [op |-> "get", instance |-> instance,
                         outs |-> <<r1.out, r2.out>>]
    /\ DeclFrame

NextPair == \E instance \in InstancesOrNone : PairGet(instance)

SpecPair == InitPair /\ [][NextPair]_vars

\* --------------------------------------- attribute present before any call
\* Other code assigned an attribute named "_" + the method's name on an
\* instance, or the owning class defines one, or both, before any descriptor
\* call.  The instances are interchangeable, so one of them stands for the
\* instance that other code assigned to.
PresetName == "_" \o method__name__

InitPre ==
    /\ InitDescriptor
    /\ \E S \in {{}, {CHOOSE i \in Instances : TRUE}},
          v \in Values, onClass \in BOOLEAN :
         /\ S # {} \/ onClass
         /\ idict = [i \in Instances |->
                        IF i \in S THEN PresetName :> v ELSE NoAttrs]
         /\ \E w \in Values :
                cdict = IF onClass THEN PresetName :> w ELSE NoAttrs
    /\ pre = idict
    /\ InitCalls
    /\ NoThreads
    /\ NoDeclaration

SpecPre == InitPre /\ [][Next]_vars

TypeOK ==
    /\ nops \in 0..MaxOps
    /\ \A i \in Instances : DOMAIN idict[i] \subseteq {cache_name}

\* ================================================================ claims
\* Number of times the computation (method, or fget in its place) ran on i.
Computations(i) == method_calls[i] + fget_calls[i]
\* The step just taken was the call `op` with `instance`.
StepOn(op, instance) ==
    nops' = nops + 1 /\ last'.op = op /\ last'.instance = instance
\* The state is the one right after the call `op` with `instance`.
JustDid(op, instance) == last.op = op /\ last.instance = instance

\* C1: on a read-only lazy attribute without custom getter, for an instance
\* on which the computation never raised and no setter ran, once at least one
\* read was made the method was invoked exactly once, and every read returns
\* the value that invocation produced.
C1_ComputedOnce ==
    \A i \in Instances :
        (cls = "LazyProperty" /\ fget = None /\ ~failed[i]
            /\ fset_calls[i] = 0 /\ reads[i] >= 1)
        => /\ method_calls[i] = 1
           /\ fget_calls[i] = 0
           /\ JustDid("get", i) => last.out = produced[i]

C1_Witness ==
    \E i \in Instances :
        /\ cls = "LazyProperty" /\ fget = None /\ ~failed[i] /\ fset_calls[i] = 0
        /\ reads[i] >= 3 /\ method_calls[i] = 1
        /\ JustDid("get", i) /\ last.out = produced[i]

\* C2: a read made while the slot is absent runs the computation; when that
\* raises, the caller gets the very error raised, the slot is still absent
\* afterwards, and so the next read of that instance runs the computation again.
C2_FailureNotCached ==
    [][\A i \in Instances :
         (StepOn("get", i) /\ ~CacheHit(idict, i))
         => /\ Computations(i)' = Computations(i) + 1
            /\ last'.out.kind = "raise"
               => /\ last'.out = produced'[i]
                  /\ last'.out.err \in UserErrors
                  /\ ~CacheHit(idict', i)]_vars

C2_Witness ==
    \E i \in Instances :
        /\ failed[i] /\ Computations(i) >= 2
        /\ JustDid("get", i) /\ last.out.kind = "return"
        /\ first_op[i] = "get" /\ fset_calls[i] = 0 /\ written[i] = <<>>

\* C3: with the writable variant and no custom setter, on an instance whose
\* first call was a write, every read returns the written value and the
\* computation is never invoked on that instance.
C3_WriteBeforeRead ==
    \A i \in Instances :
        (cls = "LazyWritableProperty" /\ fset = None /\ first_op[i] = "set")
        => /\ Computations(i) = 0
           /\ written[i] # <<>>
           /\ JustDid("get", i) => last.out = Return(written[i][1])

C3_Witness ==
    \E i \in Instances :
        /\ cls = "LazyWritableProperty" /\ fset = None /\ first_op[i] = "set"
        /\ reads[i] >= 2 /\ JustDid("get", i) /\ stores[i] = 1
        /\ last.out = Return(written[i][1])

\* C4: with the writable variant and no custom setter, a read that follows at
\* least one write returns the value of the most recent write, not an earlier
\* computed result and not an earlier written value.
C4_LatestWriteWins ==
    \A i \in Instances :
        (cls = "LazyWritableProperty" /\ fset = None
            /\ written[i] # <<>> /\ JustDid("get", i))
        => last.out = Return(written[i][1])

C4_Witness ==
    \E i \in Instances :
        /\ cls = "LazyWritableProperty" /\ fset = None
        /\ first_op[i] = "get" /\ produced[i].kind = "return"
        /\ written[i] # <<>> /\ written[i][1] # produced[i].val
        /\ JustDid("get", i) /\ last.out = Return(written[i][1])

\* C5: on a LazyProperty without custom setter, a write on an instance raises
\* AttributeError, leaves every cache slot as it was (absent or populated with
\* the same value) and invokes no computation.
C5_ReadOnly ==
    [][\A i \in Instances :
         (cls = "LazyProperty" /\ fset = None /\ StepOn("set", i))
         => /\ last'.out = Raise("AttributeError")
            /\ idict' = idict
            /\ method_calls' = method_calls
            /\ fget_calls' = fget_calls
            /\ fset_calls' = fset_calls]_vars

C5_Witness ==
    \E i \in Instances :
        /\ cls = "LazyProperty" /\ fset = None
        /\ JustDid("set", i) /\ last.out = Raise("AttributeError")
        /\ CacheHit(idict, i) /\ getattr(idict, i, cache_name) # last.value

\* C6: a call made with instance i leaves the cache slot and the invocation
\* counts of every other instance j unchanged; a read of i whose slot is
\* absent invokes the computation with i as argument, and a result it returns
\* is cached on i.
C6_PerInstance ==
    [][\A i \in Instances, op \in {"get", "set"} :
         StepOn(op, i)
         => /\ \A j \in InstancesOrNone \ {i} :
                 /\ j \in Instances => idict'[j] = idict[j]
                 /\ method_calls'[j] = method_calls[j]
                 /\ fget_calls'[j] = fget_calls[j]
            /\ (op = "get" /\ ~CacheHit(idict, i))
               => /\ Computations(i)' = Computations(i) + 1
                  /\ last'.out.kind = "return"
                     => /\ CacheHit(idict', i)
                        /\ getattr(idict', i, cache_name) = last'.out.val]_vars

C6_Witness ==
    \E i, j \in Instances :
        /\ i # j
        /\ CacheHit(idict, i) /\ CacheHit(idict, j)
        /\ Computations(i) = 1 /\ Computations(j) = 1
        /\ getattr(idict, i, cache_name) # getattr(idict, j, cache_name)
        /\ produced[i] = Return(getattr(idict, i, cache_name))
        /\ produced[j] = Return(getattr(idict, j, cache_name))

\* C7: a read with no instance (class-level access) returns the descriptor
\* itself, invokes neither the method nor the custom getter and creates or
\* changes no cache slot.
C7_ClassLevelGet ==
    [][StepOn("get", None)
         => /\ last'.out = ReturnSelf
            /\ idict' = idict
            /\ method_calls' = method_calls
            /\ fget_calls' = fget_calls
            /\ stores' = stores]_vars

C7_Witness ==
    /\ JustDid("get", None) /\ last.out = ReturnSelf
    /\ fget = CustomGetter
    /\ \E i \in Instances : ~CacheHit(idict, i)

\* C8: a write on the writable variant made with no instance raises
\* AttributeError, with or without a custom setter, and invokes neither the
\* setter nor the computation and changes no cache slot.
C8_ClassLevelSet ==
    [][(cls = "LazyWritableProperty" /\ StepOn("set", None))
         => /\ last'.out = Raise("AttributeError")
            /\ fset_calls' = fset_calls
            /\ fset_args' = fset_args
            /\ method_calls' = method_calls
            /\ fget_calls' = fget_calls
            /\ idict' = idict
            /\ stores' = stores]_vars

C8_Witness ==
    /\ cls = "LazyWritableProperty" /\ fset = CustomSetter
    /\ JustDid("set", None) /\ last.out = Raise("AttributeError")
    /\ \A i \in InstancesOrNone : fset_calls[i] = 0

\* C9: on the writable variant with a custom setter, a write on an instance
\* calls the setter exactly once, with (instance, value); the descriptor itself
\* stores nothing and invokes no computation; and a later read that finds the
\* slot absent still runs the computation.
C9_CustomSetter ==
    [][\A i \in Instances :
         (cls = "LazyWritableProperty" /\ fset # None)
         => /\ StepOn("set", i)
               => /\ fset_calls' = [fset_calls EXCEPT ![i] = @ + 1]
                  /\ fset_args' = <<i, last'.value>>
                  /\ stores' = stores
                  /\ written' = written
                  /\ method_calls' = method_calls
                  /\ fget_calls' = fget_calls
            /\ (StepOn("get", i) /\ fset_calls[i] > 0 /\ ~CacheHit(idict, i))
               => Computations(i)' = Computations(i) + 1]_vars

C9_Witness ==
    \E i \in Instances :
        /\ cls = "LazyWritableProperty" /\ fset = CustomSetter
        /\ first_op[i] = "set" /\ fset_calls[i] = 1 /\ fset_args[1] = i
        /\ JustDid("get", i) /\ Computations(i) = 1 /\ stores[i] = 1

\* C10: a read that finds the slot absent calls the override getter, and not
\* the method, when one was supplied, otherwise the method, each with the
\* instance; a value that call returns is what the read returns and what the
\* slot then holds; a read that finds the slot present calls neither.
C10_GetterChoice ==
    [][\A i \in Instances :
         StepOn("get", i)
         => IF CacheHit(idict, i)
            THEN /\ method_calls' = method_calls
                 /\ fget_calls' = fget_calls
                 /\ last'.out = Return(getattr(idict, i, cache_name))
            ELSE /\ IF fget # None
                    THEN /\ fget_calls' = [fget_calls EXCEPT ![i] = @ + 1]
                         /\ method_calls' = method_calls
                    ELSE /\ method_calls' = [method_calls EXCEPT ![i] = @ + 1]
                         /\ fget_calls' = fget_calls
                 /\ last'.out = produced'[i]
                 /\ last'.out.kind = "return"
                    => /\ CacheHit(idict', i)
                       /\ getattr(idict', i, cache_name) = last'.out.val]_vars

C10_Witness ==
    \E i \in Instances :
        /\ fget = CustomGetter /\ fget_calls[i] = 1 /\ method_calls[i] = 0
        /\ reads[i] >= 2 /\ JustDid("get", i)
        /\ fset_calls[i] = 0 /\ written[i] = <<>>
        /\ last.out = produced[i]

\* C13: every cache slot is absent in the initial state; it is present, with
\* the value returned or written, after a read that returned and after a
\* default-setter write that succeeded; and no call of the descriptor makes a
\* present slot absent.
C13_SlotLifecycle ==
    /\ \A i \in Instances : ~CacheHit(idict, i)
    /\ [][\A i \in Instances :
            /\ (StepOn("get", i) /\ last'.out.kind = "return")
               => /\ CacheHit(idict', i)
                  /\ getattr(idict', i, cache_name) = last'.out.val
            /\ (StepOn("set", i) /\ cls = "LazyWritableProperty" /\ fset = None)
               => /\ last'.out = ReturnNone
                  /\ CacheHit(idict', i)
                  /\ getattr(idict', i, cache_name) = last'.value
            /\ CacheHit(idict, i) => CacheHit(idict', i)]_vars

C13_Witness ==
    \E i, j \in Instances :
        /\ cls = "LazyWritableProperty" /\ fset = None
        /\ first_op[i] = "get" /\ produced[i].kind = "return"
        /\ JustDid("set", i) /\ CacheHit(idict, i) /\ stores[i] = 2
        /\ first_op[j] = "none" /\ ~CacheHit(idict, j)

\* The cache slot of instance i is present in d.
Populated(d, i) == hasattr(d, i, cache_name)

\* C14 as stated: a read made while the slot is populated leaves the slot and
\* the invocation counts unchanged, and the value of a populated slot changes
\* only in a write on the writable variant.
C14_Original ==
    [][\A i \in Instances :
         Populated(idict, i)
         => /\ StepOn("get", i)
               => /\ idict' = idict
                  /\ method_calls' = method_calls
                  /\ fget_calls' = fget_calls
            /\ idict'[i] # idict[i]
               => /\ StepOn("set", i)
                  /\ cls = "LazyWritableProperty"]_vars

\* C14 (amended): a read made while the slot is populated leaves the slot and
\* the invocation counts unchanged, and the value of a populated slot changes
\* only in a write on that instance: by the default setter of the writable
\* variant, or by a custom setter (of either variant) that stores into the slot.
C14_ReadsKeepSlot ==
    [][\A i \in Instances :
         Populated(idict, i)
         => /\ StepOn("get", i)
               => /\ idict' = idict
                  /\ method_calls' = method_calls
                  /\ fget_calls' = fget_calls
            /\ idict'[i] # idict[i]
               => /\ StepOn("set", i)
                  /\ \/ cls = "LazyWritableProperty" /\ fset = None
                     \/ fset # None /\ fset_calls'[i] = fset_calls[i] + 1
                  /\ getattr(idict', i, cache_name) = last'.value]_vars

C14_Witness ==
    \E i \in Instances :
        /\ cls = "LazyProperty" /\ fset = CustomSetter
        /\ first_op[i] = "get" /\ produced[i].kind = "return" /\ stores[i] = 1
        /\ JustDid("set", i) /\ fset_calls[i] = 1
        /\ getattr(idict, i, cache_name) = last.value
        /\ getattr(idict, i, cache_name) # produced[i].val

\* C16: a falsy result (0) of the first read is stored like any other, and a
\* read that finds the slot holding it returns it without invoking the
\* computation and without changing the slot.
C16_FalsyCached ==
    [][\A i \in Instances :
         StepOn("get", i)
         => /\ (~CacheHit(idict, i) /\ last'.out = Return(0))
               => /\ CacheHit(idict', i)
                  /\ getattr(idict', i, cache_name) = 0
            /\ (CacheHit(idict, i) /\ getattr(idict, i, cache_name) = 0)
               => /\ last'.out = Return(0)
                  /\ method_calls' = method_calls
                  /\ fget_calls' = fget_calls
                  /\ idict' = idict]_vars

C16_Witness ==
    \E i \in Instances :
        /\ first_op[i] = "get" /\ produced[i] = Return(0)
        /\ fset_calls[i] = 0 /\ written[i] = <<>>
        /\ reads[i] >= 2 /\ Computations(i) = 1
        /\ JustDid("get", i) /\ last.out = Return(0)

\* C17: when an attribute named "_" + the method's name was visible on an
\* instance before the first descriptor call (set on the instance or defined
\* on its class), then as long as no setter changed it every read of that
\* instance returns that value, the computation is never invoked on it and the
\* descriptor stores nothing on it.
C17_PresetWins ==
    \A i \in Instances :
        (hasattr(pre, i, PresetName) /\ written[i] = <<>> /\ fset_calls[i] = 0)
        => /\ Computations(i) = 0
           /\ stores[i] = 0
           /\ idict[i] = pre[i]
           /\ JustDid("get", i) => last.out = Return(getattr(pre, i, PresetName))

\* The value came from the class: the instance itself holds nothing.
C17_Witness ==
    \E i \in Instances :
        /\ PresetName \in DOMAIN cdict /\ pre[i] = NoAttrs /\ idict[i] = NoAttrs
        /\ reads[i] >= 2 /\ JustDid("get", i)
        /\ last.out = Return(cdict[PresetName])
        /\ Computations(i) = 0

\* Every thread has finished its call.
AllDone == \A t \in Threads : pc[t] = "done"
\* Thread t has made the slot access `what`, and where in the order.
Happened(t, what) ==
    \E n \in 1..Len(events) : events[n].t = t /\ events[n].what = what
Pos(t, what) ==
    CHOOSE n \in 1..Len(events) : events[n].t = t /\ events[n].what = what
\* The assignments to the slot, in the order they happened.
SlotStores == SelectSeq(events, LAMBDA e : e.what \in {"store", "write"})

\* C15: when two threads read the same uninitialized attribute of the same
\* instance, the computation is invoked once for every read that found the
\* slot absent (up to twice), and once both are finished and a result was
\* stored the slot holds the value of the store that happened last.
C15_LastStoreWins ==
    (AllDone /\ \A t \in Threads : task[t].op = "get")
    => /\ Computations(TheInstance) \in 1..2
       /\ Computations(TheInstance) =
              Cardinality({t \in Threads : Happened(t, "compute")})
       /\ SlotStores # <<>>
          => /\ Populated(idict, TheInstance)
             /\ getattr(idict, TheInstance, cache_name)
                    = SlotStores[Len(SlotStores)].val

\* Both reads computed, the two results differ, and the first one stored is
\* the one that was lost.
C15_Witness ==
    /\ AllDone /\ \A t \in Threads : task[t].op = "get"
    /\ Computations(TheInstance) = 2
    /\ Len(SlotStores) = 2
    /\ SlotStores[1].val # SlotStores[2].val
    /\ getattr(idict, TheInstance, cache_name) = SlotStores[2].val

\* C19: on the writable variant with no custom setter, when a first read and
\* a write of x run concurrently on one instance, the slot finally holds the
\* read's computed result if the read checked the slot before the write and
\* stored after it, and holds x in every other case.
C19_ReadWriteRace ==
    \A r, w \in Threads :
        (AllDone /\ cls = "LazyWritableProperty"
            /\ task[r].op = "get" /\ task[w].op = "set")
        => /\ Populated(idict, TheInstance)
           /\ getattr(idict, TheInstance, cache_name) =
                 IF /\ Happened(r, "store")
                    /\ Pos(r, "check") < Pos(w, "write")
                    /\ Pos(w, "write") < Pos(r, "store")
                 THEN tres[r].val
                 ELSE task[w].value

C19_Witness ==
    \E r, w \in Threads :
        /\ AllDone /\ cls = "LazyWritableProperty"
        /\ task[r].op = "get" /\ task[w].op = "set"
        /\ Happened(r, "store")
        /\ Pos(r, "check") < Pos(w, "write")
        /\ Pos(w, "write") < Pos(r, "store")
        /\ tres[r].val # task[w].value
        /\ getattr(idict, TheInstance, cache_name) = tres[r].val

\* C11: after every sequence of class-level and instance-level reads made of
\* a LazyProperty and of a LazyWritableProperty built from the same
\* computation, both returned the same, their computation was invoked equally
\* often on every instance, and the instances hold the same cache slots under
\* the same name.
C11_SameReads ==
    /\ descs[1].cache_name = descs[2].cache_name
    /\ objs[1] = objs[2]
    /\ dcalls[1] = dcalls[2]
    /\ last.op = "get" => last.outs[1] = last.outs[2]

C11_Witness ==
    \E i \in Instances :
        /\ descs[1].cls = "LazyProperty" /\ descs[2].cls = "LazyWritableProperty"
        /\ last.op = "get" /\ last.instance = i
        /\ last.outs[2].kind = "return"
        /\ dcalls[2][i].n = 2 /\ dcalls[2][i].raised = 1
        /\ hasattr(objs[2], i, descs[2].cache_name)
        /\ nops = 3

\* C12: a descriptor constructed without a doc argument has the wrapped
\* method's documentation string as its __doc__.
C12_DocFromMethod ==
    \A k \in DOMAIN descs :
        descs[k].doc_arg = DocNone => descs[k].doc = descs[k].method.doc

C12_Witness ==
    \E k \in DOMAIN descs :
        /\ descs[k].doc_arg = DocNone
        /\ descs[k].method.doc = "computes it"
        /\ descs[k].doc = "computes it"
        /\ descs[k].fget = CustomGetter

\* The cache slot of descs[k] on instance i: <<v>>, or <<>> when absent.
SlotIn(ob, k, i) ==
    IF hasattr(ob, i, descs[k].cache_name)
    THEN <<getattr(ob, i, descs[k].cache_name)>>
    ELSE <<>>

\* C18: for two lazy attributes of one class whose methods have different
\* names, a read or write of one leaves the other's cache slot on every
\* instance and the other's invocation counts unchanged, and each attribute's
\* computation returns at most once per instance.
C18_PerAttribute ==
    [][\A a, b \in {1, 2} :
         (a # b /\ nops' = nops + 1 /\ last'.k = a)
         => /\ \A i \in Instances : SlotIn(objs'[1], b, i) = SlotIn(objs[1], b, i)
            /\ dcalls'[b] = dcalls[b]
            /\ \A i \in Instances : dcalls'[a][i].n - dcalls'[a][i].raised <= 1]_vars

C18_Witness ==
    \E i \in Instances :
        /\ descs[1].method.name # descs[2].method.name
        /\ dcalls[1][i] = [n |-> 1, raised |-> 0]
        /\ dcalls[2][i] = [n |-> 1, raised |-> 0]
        /\ SlotIn(objs[1], 1, i) # <<>> /\ SlotIn(objs[1], 2, i) # <<>>
        /\ SlotIn(objs[1], 1, i) # SlotIn(objs[1], 2, i)
        /\ last.op = "get" /\ nops = 3

=============================================================================
